---- MODULE Spec2Model ----
(***************************************************************************)
(* Model of aviary/interface/reports.py: subsystem_report and              *)
(* mission_report with its two inner helpers _get_phase_value and          *)
(* _get_phase_diff.  The host problem object (get_val, phase_info,         *)
(* core_subsystems, get_reports_dir) is the environment: its variable      *)
(* store and the file system are drawn in the initial predicates.          *)
(***************************************************************************)
EXTENDS Integers, Sequences, FiniteSets, TLC

\* ------------------------------------------------------------------ bounds
MaxPhases == 3
MaxVal == 1
TsLen == 3
MaxSubsystems == 3
MaxRuns == 2
MaxCallPhases == 2

\* --------------------------------------------------------------- variables
VARIABLES
    store,            \* the problem's variables as get_val sees them
    phase_info,       \* prob.phase_info: the ordered phase names
    fileExists,       \* whether reports/mission_summary.md exists
    fileContent,      \* what it holds
    pc,               \* mission_report's position
    idx,              \* phases the loop has completed
    data,             \* the per-phase tables, in insertion order
    initial_mass, initial_time, initial_range,
    final_mass, final_time, final_range,
    totals,           \* the totals table
    exc,              \* the exception that left the running function
    call,             \* arguments of the last helper call (SpecValue)
    ret,              \* what that call returned
    reads,            \* the get_val calls it made, in order
    parentExists,     \* whether the reports directory exists
    folder,           \* reports/subsystems: "absent", "dir" or "file"
    core_subsystems,  \* prob.core_subsystems values, in mapping order
    failing,          \* the subsystems whose report() raises
    kwargs,           \* the pass-through options
    calls,            \* the report() calls made, in order
    spc,              \* subsystem_report's position
    runs              \* completed invocations of subsystem_report

missionVars == <<pc, idx, data, initial_mass, initial_time, initial_range,
                 final_mass, final_time, final_range, totals>>
fileVars == <<fileExists, fileContent>>
probVars == <<store, phase_info>>
valueVars == <<call, ret, reads>>
subVars == <<parentExists, folder, core_subsystems, failing, kwargs, calls,
             spc, runs>>
vars == <<probVars, fileVars, missionVars, exc, valueVars, subVars>>

\* ------------------------------------------------------------ numpy values
\* An array is its rank and its elements: rank 2 is shape (k,1), rank 1 is
\* shape (k,), rank 0 is a numpy scalar.  None and an unbound local are
\* values of their own.
Arr(r, d) == [rank |-> r, data |-> d]
None == [rank |-> -1, data |-> <<>>]
Unbound == [rank |-> -2, data |-> <<>>]
Scalar(x) == Arr(0, <<x>>)

\* The result of an expression: the exception it raised ("" for none) and
\* its value.
Ok(v) == [exc |-> "", val |-> v]
Raise(e) == [exc |-> e, val |-> None]

\* Python's index i into a sequence of length n, 1-based; 0 when out of range.
Pos(i, n) == IF i >= 0 /\ i < n THEN i + 1
             ELSE IF i < 0 /\ -i <= n THEN n + i + 1 ELSE 0

\* indices arguments of get_val: one integer, or a list of integers.
IntIdx(i) == [list |-> FALSE, ix |-> <<i>>]
ListIdx(s) == [list |-> TRUE, ix |-> s]
DefaultIndices == ListIdx(<<0, -1>>)

\* a[i] for an integer i.
Subscript(a, i) ==
    IF a.rank < 0 THEN Raise("TypeError")
    ELSE IF a.rank = 0 \/ Pos(i, Len(a.data)) = 0 THEN Raise("IndexError")
    ELSE Ok(Arr(a.rank - 1, <<a.data[Pos(i, Len(a.data))]>>))

\* a[indices] as numpy computes it.
Take(a, indices) ==
    IF ~indices.list THEN Subscript(a, indices.ix[1])
    ELSE IF \E j \in 1..Len(indices.ix) : Pos(indices.ix[j], Len(a.data)) = 0
         THEN Raise("IndexError")
    ELSE Ok(Arr(a.rank, [j \in 1..Len(indices.ix) |->
                            a.data[Pos(indices.ix[j], Len(a.data))]]))

Max2(x, y) == IF x >= y THEN x ELSE y

\* a - b on one-element operands, broadcast to the higher rank.
Minus(a, b) ==
    IF a.rank < 0 \/ b.rank < 0 THEN Raise("TypeError")
    ELSE Ok(Arr(Max2(a.rank, b.rank), <<a.data[1] - b.data[1]>>))

\* ---------------------------------------------------------------- get_val
VarNames == {"mass", "t", "distance"}
Units(v) == CASE v = "mass" -> "lbm" [] v = "t" -> "min" [] OTHER -> "nmi"

TsPath(traj, phase, v) == [traj |-> traj, phase |-> phase, ts |-> TRUE, var |-> v]
ScalarPath(traj, phase, v) == [traj |-> traj, phase |-> phase, ts |-> FALSE, var |-> v]

\* prob.get_val(path, units=units, indices=indices).  The store is laid out
\* as the dotted path is: store[phase] holds the phase's "timeseries" and
\* scalar variables.  A missing path raises KeyError, an unreadable one
\* TypeError, a present one is indexed.
Lookup(st, path) ==
    LET group == IF path.ts THEN st[path.phase].timeseries ELSE st[path.phase].scalar
    IN  IF path.traj # "traj" \/ path.phase \notin DOMAIN st THEN "KeyError"
        ELSE IF path.var \notin DOMAIN group THEN "KeyError"
        ELSE group[path.var].status

Entry(st, path) ==
    IF path.ts THEN st[path.phase].timeseries[path.var]
    ELSE st[path.phase].scalar[path.var]

get_val(st, path, units, indices) ==
    IF Lookup(st, path) # "ok" THEN Raise(Lookup(st, path))
    ELSE Take(Entry(st, path).val, indices)

ReadOf(path, units, indices) == [path |-> path, units |-> units, indices |-> indices]

\* --------------------------------------------------------- _get_phase_value
\* A result together with the get_val calls made to obtain it, in order.
Traced(r, log) == [exc |-> r.exc, val |-> r.val, reads |-> log]

\* Faulty variant: a missing time-series path gives None without trying the
\* scalar path.
get_phase_value_skipping_scalar(st, traj, phase, var_name, units, indices) ==
    LET p1 == TsPath(traj, phase, var_name)
        r1 == get_val(st, p1, units, indices)
        l1 == <<ReadOf(p1, units, indices)>>
    IN  IF r1.exc # "KeyError" THEN Traced(r1, l1) ELSE Traced(Ok(None), l1)

\* Faulty variant: a type mismatch on the scalar read is handled like a
\* missing path, without reading timeseries.time.
get_phase_value_without_time(st, traj, phase, var_name, units, indices) ==
    LET p1 == TsPath(traj, phase, var_name)
        p2 == ScalarPath(traj, phase, var_name)
        r1 == get_val(st, p1, units, indices)
        r2 == get_val(st, p2, units, indices)
        l1 == <<ReadOf(p1, units, indices)>>
        l2 == Append(l1, ReadOf(p2, units, indices))
    IN  IF r1.exc # "KeyError" THEN Traced(r1, l1)
        ELSE IF r2.exc # "" THEN Traced(Ok(None), l2)
        ELSE Traced(r2, l2)

get_phase_value(st, traj, phase, var_name, units, indices) ==
    LET p1 == TsPath(traj, phase, var_name)
        p2 == ScalarPath(traj, phase, var_name)
        p3 == TsPath(traj, phase, "time")
        r1 == get_val(st, p1, units, indices)
        r2 == get_val(st, p2, units, indices)
        r3 == get_val(st, p3, units, indices)
        l1 == <<ReadOf(p1, units, indices)>>
        l2 == Append(l1, ReadOf(p2, units, indices))
        l3 == Append(l2, ReadOf(p3, units, indices))
    IN  IF r1.exc # "KeyError" THEN Traced(r1, l1)
        ELSE IF r2.exc = "TypeError" THEN Traced(r3, l3)
        ELSE IF r2.exc = "KeyError" THEN Traced(Ok(None), l2)
        ELSE Traced(r2, l2)

\* ---------------------------------------------------------- _get_phase_diff
\* if isinstance(diff, np.ndarray): diff = diff[0]
FirstIfArray(d) ==
    IF d.exc = "" /\ d.val.rank > 0 THEN Subscript(d.val, 0) ELSE d

\* Faulty variant: vals[0]-vals[-1].
FirstMinusLast(hi, lo) ==
    IF hi.exc # "" THEN hi
    ELSE IF lo.exc # "" THEN lo
    ELSE FirstIfArray(Minus(lo.val, hi.val))

\* vals[-1]-vals[0], from the two subscripts
LastMinusFirst(hi, lo) ==
    IF hi.exc # "" THEN hi
    ELSE IF lo.exc # "" THEN lo
    ELSE FirstIfArray(Minus(hi.val, lo.val))

\* The body of _get_phase_diff, from what _get_phase_value gave.
DiffOf(r) ==
    IF r.exc # "" THEN Raise(r.exc)
    ELSE IF r.val = None THEN Ok(None)
    ELSE LastMinusFirst(Subscript(r.val, -1), Subscript(r.val, 0))

get_phase_diff(st, traj, phase, var_name, units, indices) ==
    DiffOf(get_phase_value(st, traj, phase, var_name, units, indices))

\* ------------------------------------------------------- the variable store
Present(a) == [status |-> "ok", val |-> a]
Missing == [status |-> "KeyError", val |-> None]
Unreadable == [status |-> "TypeError", val |-> None]

\* A time series of TsLen samples, shape (TsLen, 1), from its two endpoints;
\* the interior samples are negative, so no endpoint equals one.
Series(first, last) ==
    Arr(2, [i \in 1..TsLen |-> IF i = 1 THEN first
                               ELSE IF i = TsLen THEN last ELSE 0 - i])

\* The nominal series of a variable in phase p: mass falls, the rest rise.
Nominal(p, v) ==
    CASE v = "mass" -> Series(40 - 4 * p, 38 - 4 * p)
      [] v = "t" -> Series(3 * p, 3 * p + 2)
      [] v = "distance" -> Series(7 * p, 7 * p + 5)
      [] OTHER -> Series(11 * p, 11 * p + 9)

\* A phase of a solved problem: every time series present, no scalar path.
NominalPhase(p) ==
    [timeseries |-> [mass |-> Present(Nominal(p, "mass")),
                     t |-> Present(Nominal(p, "t")),
                     distance |-> Present(Nominal(p, "distance")),
                     time |-> Present(Nominal(p, "time"))],
     scalar |-> [mass |-> Missing, t |-> Missing, distance |-> Missing]]

NominalStore(n) == [p \in 1..n |-> NominalPhase(p)]

Values == 0..MaxVal

\* The nominal store in which variable v carries the endpoint values f.
HealthyStore(n, v, f) ==
    [p \in 1..n |->
        [NominalPhase(p) EXCEPT !.timeseries[v] = Present(Series(f[p][1], f[p][2]))]]

Statuses(a) == {Present(a), Missing, Unreadable}
ScalarStatuses == {Present(Arr(1, <<x>>)) : x \in Values} \cup {Missing, Unreadable}

\* The nominal store in which the three paths _get_phase_value may read for
\* variable v of phase p hold e: each present, missing or unreadable.
FaultyStore(n, p, v, e) ==
    [q \in 1..n |->
        IF q = p
        THEN [NominalPhase(p) EXCEPT !.timeseries[v] = e[1],
                                     !.scalar[v] = e[2],
                                     !.timeseries.time = e[3]]
        ELSE NominalPhase(q)]

\* The problem handed to a report: n phases and their store.
Solved(n) ==
    /\ phase_info = [i \in 1..n |-> i]
    /\ \/ \E v \in VarNames, f \in [1..n -> Values \X Values] :
             store = HealthyStore(n, v, f)
       \/ \E p \in 1..n, v \in VarNames :
             \E e \in Statuses(Nominal(p, v)) \X ScalarStatuses
                      \X Statuses(Nominal(p, "time")) :
                 store = FaultyStore(n, p, v, e)

\* ------------------------------------------------------------ idle values
NoCall == [fn |-> "", phase |-> 0, var |-> "", units |-> "", indices |-> IntIdx(0)]

MissionIdle ==
    /\ pc = "idle" /\ idx = 0 /\ data = <<>> /\ totals = <<>>
    /\ initial_mass = Unbound /\ initial_time = Unbound /\ initial_range = Unbound
    /\ final_mass = Unbound /\ final_time = Unbound /\ final_range = Unbound
    /\ fileExists = FALSE /\ fileContent = <<>>

ValueIdle == call = NoCall /\ ret = None /\ reads = <<>>

SubIdle ==
    /\ parentExists = TRUE /\ folder = "absent" /\ core_subsystems = <<>>
    /\ failing = {} /\ kwargs = 0 /\ calls = <<>> /\ spc = "idle" /\ runs = 0

\* ------------------------------------------------------------ NamedValues
\* A table of named values: (name, value, units) entries in insertion order.
Item(name, val, units) == [name |-> name, val |-> val, units |-> units]

set_val(nv, name, val, units) ==
    IF \E i \in 1..Len(nv) : nv[i].name = name
    THEN [i \in 1..Len(nv) |-> IF nv[i].name = name THEN Item(name, val, units)
                               ELSE nv[i]]
    ELSE Append(nv, Item(name, val, units))

lookup(nv, name) == (CHOOSE i \in 1..Len(nv) : nv[i].name = name)

\* ------------------------------------------------------------ the document
\* What the file holds: headers and table rows, in the order written.
Header(level, text) == [kind |-> level, name |-> text, val |-> None, units |-> ""]
Row(name, val, units) == [kind |-> "row", name |-> name, val |-> val, units |-> units]

RECURSIVE Flatten(_)
Flatten(ss) == IF ss = <<>> THEN <<>> ELSE Head(ss) \o Flatten(Tail(ss))

\* write_markdown_variable_table(f, table, outputs, metadata): one row per
\* name of outputs, in that order, with the table's value and the metadata's
\* units.
write_markdown_variable_table(table, outputs, metadata) ==
    [i \in 1..Len(outputs) |->
        Row(outputs[i], table[lookup(table, outputs[i])].val, metadata[outputs[i]])]

TotalsMetadata ==
    [n \in {"Total Fuel Burn", "Total Time", "Total Ground Distance"} |->
        CASE n = "Total Fuel Burn" -> "lbm" [] n = "Total Time" -> "min"
          [] OTHER -> "nmi"]

PhaseMetadata ==
    [n \in {"Fuel Burn", "Elapsed Time", "Ground Distance"} |->
        CASE n = "Fuel Burn" -> "lbm" [] n = "Elapsed Time" -> "min"
          [] OTHER -> "nmi"]

\* Faulty variant: the phase sections come out last phase first.
DocumentReversed(tot, dat) ==
    <<Header("h1", "MISSION SUMMARY")>>
    \o write_markdown_variable_table(tot,
           <<"Total Fuel Burn", "Total Time", "Total Ground Distance">>,
           TotalsMetadata)
    \o <<Header("h1", "MISSION SEGMENTS")>>
    \o Flatten([i \in 1..Len(dat) |->
                   <<Header("h2", dat[Len(dat) + 1 - i].phase)>>
                   \o write_markdown_variable_table(dat[Len(dat) + 1 - i].outputs,
                          <<"Fuel Burn", "Elapsed Time", "Ground Distance">>,
                          PhaseMetadata)])

\* The body of the with-block: the text written to mission_summary.md.
SegmentOf(entry) ==
    <<Header("h2", entry.phase)>>
    \o write_markdown_variable_table(entry.outputs,
           <<"Fuel Burn", "Elapsed Time", "Ground Distance">>, PhaseMetadata)

Document(tot, dat) ==
    <<Header("h1", "MISSION SUMMARY")>>
    \o write_markdown_variable_table(tot,
           <<"Total Fuel Burn", "Total Time", "Total Ground Distance">>,
           TotalsMetadata)
    \o <<Header("h1", "MISSION SEGMENTS")>>
    \o Flatten([i \in 1..Len(dat) |-> SegmentOf(dat[i])])

\* --------------------------------------------------------- mission_report
\* _get_phase_value(...)[0]
Elem0(r) == IF r.exc # "" THEN Raise(r.exc) ELSE Subscript(r.val, 0)

ValueElem0(st, phase, v, i) ==
    Elem0(get_phase_value(st, "traj", phase, v, Units(v), IntIdx(i)))

\* _get_phase_value(...) with one integer index
Plain(r) == [exc |-> r.exc, val |-> r.val]

ValueAt(st, phase, v, i) ==
    Plain(get_phase_value(st, "traj", phase, v, Units(v), IntIdx(i)))

\* The exception of the first failing step of a sequence of results, or "".
FirstExc(rs) ==
    IF \A i \in 1..Len(rs) : rs[i].exc = "" THEN ""
    ELSE rs[CHOOSE i \in 1..Len(rs) :
               rs[i].exc # "" /\ \A j \in 1..(i - 1) : rs[j].exc = ""].exc

\* Faulty variant: the mass delta read with the default indices.
FuelBurnIndicesDefault == DefaultIndices

\* The indices of the mass delta.
FuelBurnIndices == ListIdx(<<-1, 0>>)

\* The three deltas of one loop iteration.
fuel_burn(st, phase) == get_phase_diff(st, "traj", phase, "mass", "lbm", FuelBurnIndices)
time(st, phase) == get_phase_diff(st, "traj", phase, "t", "min", DefaultIndices)
range(st, phase) == get_phase_diff(st, "traj", phase, "distance", "nmi", DefaultIndices)

\* outputs = NamedValues() and its three set_val calls
Outputs(fb, tm, rg) ==
    set_val(set_val(set_val(<<>>, "Fuel Burn", fb, "lbm"),
                    "Elapsed Time", tm, "min"),
            "Ground Distance", rg, "nmi")

\* data[phase] = outputs
put(dat, phase, outputs) ==
    IF \E i \in 1..Len(dat) : dat[i].phase = phase
    THEN [i \in 1..Len(dat) |-> IF dat[i].phase = phase
                                THEN [phase |-> phase, outputs |-> outputs]
                                ELSE dat[i]]
    ELSE Append(dat, [phase |-> phase, outputs |-> outputs])

\* The statements of one loop iteration in order, from their results: the
\* first exception if one is raised, and what the iteration assigns.
IterationOf(first, fb, tm, rg, im, it, ir, fm, ft, fr) ==
    [exc |-> FirstExc(IF first THEN <<fb, tm, rg, im, it, ir, fm, ft, fr>>
                      ELSE <<fb, tm, rg, fm, ft, fr>>),
     outputs |-> Outputs(fb.val, tm.val, rg.val),
     initial |-> <<im.val, it.val, ir.val>>,
     final |-> <<fm.val, ft.val, fr.val>>]

Iteration(st, phase, first) ==
    IterationOf(first, fuel_burn(st, phase), time(st, phase), range(st, phase),
                ValueElem0(st, phase, "mass", 0), ValueAt(st, phase, "t", 0),
                ValueElem0(st, phase, "distance", 0),
                ValueElem0(st, phase, "mass", -1), ValueAt(st, phase, "t", -1),
                ValueElem0(st, phase, "distance", -1))

\* The three totals in order, from the three subtractions.
TotalsOf(unbound, m, t, r) ==
    [exc |-> IF unbound THEN "UnboundLocalError" ELSE FirstExc(<<m, t, r>>),
     totals |-> set_val(set_val(set_val(<<>>,
                    "Total Fuel Burn", m.val, "lbm"),
                    "Total Time", t.val, "min"),
                    "Total Ground Distance", r.val, "nmi")]

\* What an earlier report left in mission_summary.md.
OldFile == <<Header("h1", "OLD REPORT")>>

Init ==
    /\ \E n \in 0..MaxPhases : Solved(n)
    /\ \/ fileExists = FALSE /\ fileContent = <<>>
       \/ fileExists = TRUE /\ fileContent = OldFile
    /\ pc = "loop" /\ idx = 0 /\ data = <<>> /\ totals = <<>>
    /\ initial_mass = Unbound /\ initial_time = Unbound /\ initial_range = Unbound
    /\ final_mass = Unbound /\ final_time = Unbound /\ final_range = Unbound
    /\ exc = ""
    /\ ValueIdle /\ SubIdle

\* Faulty variant: the initial values are taken in every iteration.
PhaseBodyInitialEveryPhase(phase, it) ==
    IF it.exc # ""
    THEN /\ pc' = "raised" /\ exc' = it.exc
         /\ UNCHANGED <<idx, data, initial_mass, initial_time, initial_range,
                        final_mass, final_time, final_range>>
    ELSE /\ initial_mass' = it.initial[1]
         /\ initial_time' = it.initial[2]
         /\ initial_range' = it.initial[3]
         /\ data' = put(data, phase, it.outputs)
         /\ final_mass' = it.final[1]
         /\ final_time' = it.final[2]
         /\ final_range' = it.final[3]
         /\ idx' = idx + 1
         /\ UNCHANGED <<pc, exc>>

\* One iteration of the loop over prob.phase_info.
PhaseBody(phase, it) ==
    IF it.exc # ""
    THEN /\ pc' = "raised" /\ exc' = it.exc
         /\ UNCHANGED <<idx, data, initial_mass, initial_time, initial_range,
                        final_mass, final_time, final_range>>
    ELSE /\ initial_mass' = IF idx = 0 THEN it.initial[1] ELSE initial_mass
         /\ initial_time' = IF idx = 0 THEN it.initial[2] ELSE initial_time
         /\ initial_range' = IF idx = 0 THEN it.initial[3] ELSE initial_range
         /\ data' = put(data, phase, it.outputs)
         /\ final_mass' = it.final[1]
         /\ final_time' = it.final[2]
         /\ final_range' = it.final[3]
         /\ idx' = idx + 1
         /\ UNCHANGED <<pc, exc>>

\* Faulty variant: the report file is opened for writing while the phases
\* are still being read.
PhaseStepOpeningFile ==
    /\ pc = "loop" /\ idx < Len(phase_info)
    /\ PhaseBody(phase_info[idx + 1], Iteration(store, phase_info[idx + 1], idx = 0))
    /\ fileExists' = TRUE /\ fileContent' = <<>>
    /\ UNCHANGED <<probVars, totals, valueVars, subVars>>

PhaseStep ==
    /\ pc = "loop" /\ idx < Len(phase_info)
    /\ PhaseBody(phase_info[idx + 1], Iteration(store, phase_info[idx + 1], idx = 0))
    /\ UNCHANGED <<probVars, fileVars, totals, valueVars, subVars>>

\* The three totals, computed after the loop.
TotalsBody(tt) ==
    IF tt.exc # ""
    THEN pc' = "raised" /\ exc' = tt.exc /\ UNCHANGED totals
    ELSE pc' = "write" /\ totals' = tt.totals /\ UNCHANGED exc

Totals ==
    /\ pc = "loop" /\ idx = Len(phase_info)
    /\ TotalsBody(TotalsOf(initial_mass = Unbound,
                           Minus(initial_mass, final_mass),
                           Minus(final_time, initial_time),
                           Minus(final_range, initial_range)))
    /\ UNCHANGED <<probVars, fileVars, idx, data, initial_mass, initial_time,
                   initial_range, final_mass, final_time, final_range,
                   valueVars, subVars>>

\* open(report_file, mode='w') and the writes of the with-block.
WriteReport ==
    /\ pc = "write"
    /\ fileExists' = TRUE
    /\ fileContent' = Document(totals, data)
    /\ pc' = "done"
    /\ UNCHANGED <<probVars, idx, data, initial_mass, initial_time, initial_range,
                   final_mass, final_time, final_range, totals, exc,
                   valueVars, subVars>>

Next == PhaseStep \/ Totals \/ WriteReport

Spec == Init /\ [][Next]_vars

\* ------------------------------------------------ claims about mission_report
NPhases == Len(phase_info)
Finished == pc \in {"write", "done"}

\* The value a table holds under a name.
ValOf(nv, name) == nv[lookup(nv, name)].val
\* The series at a time-series path, and its two endpoints.
Ts(p, v) == store[p].timeseries[v]
FirstOf(p, v) == Ts(p, v).val.data[1]
LastOf(p, v) == Ts(p, v).val.data[TsLen]
AllSeriesReadable ==
    \A p \in 1..NPhases, v \in VarNames : Ts(p, v).status = "ok"
BothAbsent(p, v) ==
    Ts(p, v).status = "KeyError" /\ store[p].scalar[v].status = "KeyError"

\* C1: with every phase's mass, t and distance series readable the report is
\* produced and its totals are the first phase's first sample against the
\* last phase's last sample, whatever the phases in between hold.
C1_TotalsFromFirstAndLast ==
    (NPhases >= 1 /\ AllSeriesReadable) =>
        /\ pc # "raised"
        /\ Finished =>
              /\ ValOf(totals, "Total Fuel Burn").data
                    = <<FirstOf(1, "mass") - LastOf(NPhases, "mass")>>
              /\ ValOf(totals, "Total Time").data
                    = <<LastOf(NPhases, "t") - FirstOf(1, "t")>>
              /\ ValOf(totals, "Total Ground Distance").data
                    = <<LastOf(NPhases, "distance") - FirstOf(1, "distance")>>

C1_Witness ==
    /\ pc = "done" /\ NPhases = 3 /\ AllSeriesReadable
    /\ FirstOf(1, "mass") = 1 /\ LastOf(1, "mass") = 0
    /\ FirstOf(2, "mass") = 0 /\ LastOf(2, "mass") = 1
    /\ FirstOf(3, "mass") = 1 /\ LastOf(3, "mass") = 0
    /\ ValOf(totals, "Total Fuel Burn") = Scalar(1)

\* C2: a variable of a phase with neither its time-series path nor its scalar
\* path does not abort the report: it is written, with a null entry for that
\* phase and a table for every phase.
C2_AbsentVariableDoesNotAbort ==
    \A p \in 1..NPhases, v \in VarNames :
        BothAbsent(p, v) =>
            /\ pc # "raised"
            /\ pc = "done" =>
                  /\ Len(data) = NPhases
                  /\ ValOf(data[p].outputs,
                           CASE v = "mass" -> "Fuel Burn"
                             [] v = "t" -> "Elapsed Time"
                             [] OTHER -> "Ground Distance") = None

\* C4: with a single phase each total is that phase's own entry.
C4_SinglePhaseTotals ==
    (NPhases = 1 /\ Finished) =>
        /\ ValOf(totals, "Total Fuel Burn").data
              = ValOf(data[1].outputs, "Fuel Burn").data
        /\ ValOf(totals, "Total Time").data
              = ValOf(data[1].outputs, "Elapsed Time").data
        /\ ValOf(totals, "Total Ground Distance").data
              = ValOf(data[1].outputs, "Ground Distance").data

C4_Witness ==
    /\ NPhases = 1 /\ pc = "done"
    /\ FirstOf(1, "mass") = 1 /\ LastOf(1, "mass") = 0
    /\ ValOf(totals, "Total Fuel Burn") = Scalar(1)
    /\ ValOf(data[1].outputs, "Fuel Burn") = Scalar(1)
    /\ ValOf(totals, "Total Time").data = <<2>>

\* C5: the written file holds the MISSION SUMMARY header, the three totals
\* rows, the MISSION SEGMENTS header and then, per phase of phase_info in its
\* order, a header and the rows Fuel Burn [lbm], Elapsed Time [min], Ground
\* Distance [nmi].
RowIs(r, name, units) == r.kind = "row" /\ r.name = name /\ r.units = units

C5_DocumentLayout ==
    pc = "done" =>
        /\ fileExists
        /\ Len(fileContent) = 5 + 4 * NPhases
        /\ fileContent[1] = Header("h1", "MISSION SUMMARY")
        /\ RowIs(fileContent[2], "Total Fuel Burn", "lbm")
        /\ RowIs(fileContent[3], "Total Time", "min")
        /\ RowIs(fileContent[4], "Total Ground Distance", "nmi")
        /\ fileContent[5] = Header("h1", "MISSION SEGMENTS")
        /\ \A i \in 1..NPhases :
              /\ fileContent[4 * i + 2] = Header("h2", phase_info[i])
              /\ RowIs(fileContent[4 * i + 3], "Fuel Burn", "lbm")
              /\ RowIs(fileContent[4 * i + 4], "Elapsed Time", "min")
              /\ RowIs(fileContent[4 * i + 5], "Ground Distance", "nmi")

C5_Witness ==
    /\ pc = "done" /\ NPhases = 3
    /\ fileContent[14] = Header("h2", 3)
    /\ fileContent[15] = Row("Fuel Burn", Scalar(2), "lbm")

\* C9: a phase's Fuel Burn is its first mass sample minus its last, its
\* Elapsed Time and Ground Distance are the last sample minus the first, and
\* an entry is null exactly when the variable has neither path.
C9_EntrySigns ==
    \A i \in 1..Len(data) :
        LET p == data[i].phase
            o == data[i].outputs
        IN  /\ Ts(p, "mass").status = "ok" =>
                  ValOf(o, "Fuel Burn") = Scalar(FirstOf(p, "mass") - LastOf(p, "mass"))
            /\ Ts(p, "t").status = "ok" =>
                  ValOf(o, "Elapsed Time") = Scalar(LastOf(p, "t") - FirstOf(p, "t"))
            /\ Ts(p, "distance").status = "ok" =>
                  ValOf(o, "Ground Distance")
                      = Scalar(LastOf(p, "distance") - FirstOf(p, "distance"))
            /\ ValOf(o, "Fuel Burn") = None <=> BothAbsent(p, "mass")
            /\ ValOf(o, "Elapsed Time") = None <=> BothAbsent(p, "t")
            /\ ValOf(o, "Ground Distance") = None <=> BothAbsent(p, "distance")

C9_Witness ==
    /\ Len(data) = 3
    /\ ValOf(data[2].outputs, "Elapsed Time") = None
    /\ ValOf(data[1].outputs, "Fuel Burn") = Scalar(2)
    /\ ValOf(data[3].outputs, "Ground Distance") = Scalar(5)

\* C10: the file changes only in the step that follows the loop and the
\* totals; a run that raises leaves it as it was.
C10_FileWrittenLast ==
    [][ /\ (fileExists' # fileExists \/ fileContent' # fileContent) =>
              (pc = "write" /\ idx = NPhases /\ totals # <<>> /\ pc' = "done")
        /\ pc' = "raised" => UNCHANGED fileVars ]_vars

C10_Witness ==
    /\ pc = "raised" /\ exc = "UnboundLocalError"
    /\ fileExists /\ fileContent = OldFile

\* ------------------------------------------- the helpers, called on their own
IndexArgs == {IntIdx(0), IntIdx(-1), ListIdx(<<0, -1>>), ListIdx(<<-1, 0>>)}

InitValue ==
    /\ \E n \in 1..MaxCallPhases : Solved(n)
    /\ exc = ""
    /\ MissionIdle /\ ValueIdle /\ SubIdle

CallPhaseValue ==
    /\ call = NoCall
    /\ \E p \in 1..Len(phase_info), v \in VarNames, ind \in IndexArgs :
        LET r == get_phase_value(store, "traj", p, v, Units(v), ind)
        IN  /\ call' = [fn |-> "_get_phase_value", phase |-> p, var |-> v,
                        units |-> Units(v), indices |-> ind]
            /\ ret' = r.val
            /\ exc' = r.exc
            /\ reads' = r.reads
    /\ UNCHANGED <<probVars, fileVars, missionVars, subVars>>

CallPhaseDiff ==
    /\ call = NoCall
    /\ \E p \in 1..Len(phase_info), v \in VarNames, ind \in IndexArgs :
        LET r == get_phase_diff(store, "traj", p, v, Units(v), ind)
        IN  /\ call' = [fn |-> "_get_phase_diff", phase |-> p, var |-> v,
                        units |-> Units(v), indices |-> ind]
            /\ ret' = r.val
            /\ exc' = r.exc
            /\ reads' = get_phase_value(store, "traj", p, v, Units(v), ind).reads
    /\ UNCHANGED <<probVars, fileVars, missionVars, subVars>>

NextValue == CallPhaseValue \/ CallPhaseDiff

SpecValue == InitValue /\ [][NextValue]_vars

\* ---------------------------------------------- claims about _get_phase_value
\* What the store holds at the three paths of the finished call.
CallTs == store[call.phase].timeseries[call.var]
CallScalar == store[call.phase].scalar[call.var]
CallTime == store[call.phase].timeseries.time
ValueCalled == call.fn = "_get_phase_value"

CallRead(path) == ReadOf(path, call.units, call.indices)
TsRead == CallRead(TsPath("traj", call.phase, call.var))
ScalarRead == CallRead(ScalarPath("traj", call.phase, call.var))
TimeRead == CallRead(TsPath("traj", call.phase, "time"))

\* C3: a missing time-series path with a readable scalar path returns the
\* scalar path's value, read with the same units and indices, raises nothing
\* and reads nothing further; a readable time-series path is the only read.
C3_ScalarFallback ==
    ValueCalled =>
        /\ (CallTs.status = "KeyError" /\ CallScalar.status = "ok") =>
              /\ exc = ""
              /\ ret = Take(CallScalar.val, call.indices).val
              /\ reads = <<TsRead, ScalarRead>>
        /\ CallTs.status = "ok" =>
              /\ reads = <<TsRead>>
              /\ ret = Take(CallTs.val, call.indices).val

C3_Witness ==
    /\ ValueCalled /\ CallTs.status = "KeyError" /\ CallScalar.status = "ok"
    /\ call.indices = ListIdx(<<-1, 0>>)
    /\ ret = Arr(1, <<1, 1>>)

\* C7 as stated: after a missing time-series path and a type mismatch on the
\* scalar read, the value of timeseries.time at the requested indices is
\* returned, nothing is raised and the result is not None.
C7_Original ==
    (ValueCalled /\ CallTs.status = "KeyError" /\ CallScalar.status = "TypeError") =>
        /\ reads = <<TsRead, ScalarRead, TimeRead>>
        /\ exc = ""
        /\ ret # None

\* C7 amended: in that case timeseries.time is read third, with the requested
\* units and indices, and when that read succeeds its value is returned,
\* nothing is raised and the result is not None.
C7_TimeSubstitute ==
    (ValueCalled /\ CallTs.status = "KeyError" /\ CallScalar.status = "TypeError") =>
        /\ reads = <<TsRead, ScalarRead, TimeRead>>
        /\ CallTime.status = "ok" =>
              /\ exc = ""
              /\ ret = Take(CallTime.val, call.indices).val
              /\ ret # None

C7_Witness ==
    /\ ValueCalled /\ CallTs.status = "KeyError" /\ CallScalar.status = "TypeError"
    /\ CallTime.status = "ok" /\ call.var = "mass" /\ call.indices = IntIdx(-1)
    /\ ret = Arr(1, <<11 * call.phase + 9>>)

\* C8: no missing-path condition leaves _get_phase_value: when the last read
\* attempted fails with one, None is returned.
C8_NoKeyErrorEscapes ==
    ValueCalled =>
        /\ exc # "KeyError"
        /\ (Len(reads) >= 2 /\ Lookup(store, reads[Len(reads)].path) = "KeyError") =>
              (exc = "" /\ ret = None)

\* --------------------------------------------------------- subsystem_report
ReportsFolder == "reports/subsystems"

\* The orders in which up to MaxSubsystems subsystems can be registered.
Registrations ==
    UNION { { q \in [1..k -> 1..MaxSubsystems] :
                \A i, j \in 1..k : i # j => q[i] # q[j] } :
            k \in 0..MaxSubsystems }

InitSubsystem ==
    /\ core_subsystems \in Registrations
    /\ failing \in SUBSET {core_subsystems[i] : i \in 1..Len(core_subsystems)}
    /\ kwargs \in {0, 1}
    /\ parentExists \in BOOLEAN
    /\ folder \in IF parentExists THEN {"absent", "dir", "file"} ELSE {"absent"}
    /\ spc = "mkdir" /\ runs = 1 /\ calls = <<>> /\ exc = ""
    /\ phase_info = <<>> /\ store = <<>>
    /\ MissionIdle /\ ValueIdle

\* Faulty variant: mkdir() without exist_ok.
mkdir_exclusive(exists, parent) ==
    IF exists # "absent" THEN "FileExistsError"
    ELSE IF ~parent THEN "FileNotFoundError"
    ELSE ""

\* reports_folder.mkdir(exist_ok=True): the outcome, "" when it succeeds.
mkdir(exists, parent) ==
    IF exists = "dir" THEN ""
    ELSE IF exists = "file" THEN "FileExistsError"
    ELSE IF ~parent THEN "FileNotFoundError"
    ELSE ""

Mkdir ==
    /\ spc = "mkdir"
    /\ IF mkdir(folder, parentExists) = ""
       THEN folder' = "dir" /\ spc' = "loop" /\ UNCHANGED exc
       ELSE exc' = mkdir(folder, parentExists) /\ spc' = "raised" /\ UNCHANGED folder
    /\ UNCHANGED <<probVars, fileVars, missionVars, valueVars, parentExists,
                   core_subsystems, failing, kwargs, calls, runs>>

\* subsystem.report(prob, reports_folder, **kwargs)
ReportCall(subsystem) ==
    [subsystem |-> subsystem, prob |-> "prob", folder |-> ReportsFolder,
     kwargs |-> kwargs]

\* One iteration of the loop over core_subsystems.values(); an exception of
\* the subsystem's report leaves subsystem_report.
ReportStep ==
    /\ spc = "loop" /\ Len(calls) < Len(core_subsystems)
    /\ calls' = Append(calls, ReportCall(core_subsystems[Len(calls) + 1]))
    /\ IF core_subsystems[Len(calls) + 1] \in failing
       THEN spc' = "raised" /\ exc' = "ReportError"
       ELSE UNCHANGED <<spc, exc>>
    /\ UNCHANGED <<probVars, fileVars, missionVars, valueVars, parentExists,
                   folder, core_subsystems, failing, kwargs, runs>>

Return ==
    /\ spc = "loop" /\ Len(calls) = Len(core_subsystems)
    /\ spc' = "done"
    /\ UNCHANGED <<probVars, fileVars, missionVars, exc, valueVars, parentExists,
                   folder, core_subsystems, failing, kwargs, calls, runs>>

\* The report is run again on the same problem and reports directory.
RunAgain ==
    /\ spc \in {"done", "raised"} /\ runs < MaxRuns
    /\ spc' = "mkdir" /\ runs' = runs + 1 /\ calls' = <<>> /\ exc' = ""
    /\ UNCHANGED <<probVars, fileVars, missionVars, valueVars, parentExists,
                   folder, core_subsystems, failing, kwargs>>

NextSubsystem == Mkdir \/ ReportStep \/ Return \/ RunAgain

SpecSubsystem == InitSubsystem /\ [][NextSubsystem]_vars

\* C6: the folder is created when absent and reused when present, a second
\* run changes nothing about it, and report is called only once the folder
\* exists: once per subsystem, in mapping order, each time with that folder.
C6_Dispatch ==
    /\ [](/\ spc \in {"loop", "done"} => folder = "dir"
          /\ calls # <<>> => folder = "dir"
          /\ (spc = "raised" /\ calls = <<>>) =>
                (folder = "file" \/ (folder = "absent" /\ ~parentExists))
          /\ Len(calls) <= Len(core_subsystems)
          /\ \A i \in 1..Len(calls) :
                calls[i] = [subsystem |-> core_subsystems[i], prob |-> "prob",
                            folder |-> "reports/subsystems", kwargs |-> kwargs]
          /\ spc = "done" => Len(calls) = Len(core_subsystems))
    /\ [][folder' # folder =>
            (spc = "mkdir" /\ runs = 1 /\ folder = "absent" /\ folder' = "dir")]_vars

C6_Witness ==
    /\ runs = 2 /\ spc = "done" /\ folder = "dir"
    /\ Len(calls) = 3 /\ calls[1].subsystem = 3 /\ calls[3].subsystem = 1

====
